---- MODULE Spec2Model ----
(***************************************************************************)
(* Model of the long-document summarization pipeline of                    *)
(* advanced_summarizer.py: chunk_text, the adapter call sites              *)
(* (extract_key_info, summarize_chunk, combine_summaries, the direct       *)
(* summarization call) and the orchestrator advanced_summarize.            *)
(*                                                                         *)
(* A Python str is modelled run-length encoded: a sequence of runs         *)
(* [c |-> character, n |-> repeat count] in normal form (no empty run, no  *)
(* two adjacent runs of the same character), so that two strings are equal *)
(* exactly when their encodings are equal and documents of 12,000          *)
(* characters stay small values.                                           *)
(*                                                                         *)
(* Monetary amounts are integers in units of 1e-8 USD: the tariff          *)
(* 0.00015 USD per 1000 prompt tokens is 15 units per token, 0.0006 USD    *)
(* per 1000 completion tokens is 60 units per token.  Floating-point       *)
(* rounding of the sums is not modelled.                                   *)
(***************************************************************************)
EXTENDS Integers, Sequences, FiniteSets, TLC

(***************************************************************************)
(* Bounds of the model                                                     *)
(***************************************************************************)
\* largest number of paragraphs of a generated document
MaxParagraphs == 3
\* longest text given to chunk_text on its own
MaxTextLen == 5
\* largest chunk_size given to chunk_text on its own
MaxChunkSize == 3
\* largest number of load_document_for_qa and answer_question calls of a session
MaxQACalls == 5

(***************************************************************************)
(* Program constants                                                       *)
(***************************************************************************)
\* routing threshold in characters: `if char_count < 12000`
Threshold == 12000
\* `chunk_text(text, chunk_size=10000)`
ChunkSize == 10000
\* (prompt_tokens / 1000) * 0.00015, in 1e-8 USD per token
PromptRate == 15
\* (completion_tokens / 1000) * 0.0006, in 1e-8 USD per token
CompletionRate == 60

(***************************************************************************)
(* Strings                                                                 *)
(***************************************************************************)
NL == "\n"
SP == " "

\* characters str.strip() and str.split() treat as whitespace
IsSpace(c) == c \in {SP, NL}

\* c * n
Rep(c, n) == IF n = 0 THEN <<>> ELSE <<[c |-> c, n |-> n]>>

\* s + t
Cat(s, t) ==
  IF s = <<>> THEN t
  ELSE IF t = <<>> THEN s
  ELSE IF s[Len(s)].c = t[1].c
       THEN SubSeq(s, 1, Len(s) - 1)
              \o <<[c |-> t[1].c, n |-> s[Len(s)].n + t[1].n]>>
              \o Tail(t)
       ELSE s \o t

\* len(s)
RECURSIVE StrLen(_)
StrLen(s) == IF s = <<>> THEN 0 ELSE s[1].n + StrLen(Tail(s))

RECURSIVE LStrip(_)
LStrip(s) == IF s # <<>> /\ IsSpace(s[1].c) THEN LStrip(Tail(s)) ELSE s

RECURSIVE RStrip(_)
RStrip(s) ==
  IF s # <<>> /\ IsSpace(s[Len(s)].c) THEN RStrip(SubSeq(s, 1, Len(s) - 1)) ELSE s

\* s.strip()
Strip(s) == RStrip(LStrip(s))

\* len(s.split()): the number of maximal whitespace-free stretches
WordCount(s) ==
  Cardinality({k \in 1..Len(s) :
                 /\ ~IsSpace(s[k].c)
                 /\ (k = 1 \/ IsSpace(s[k - 1].c))})

\* one run of the scan of s.split('\n\n'): st.out are the paragraphs already
\* closed, st.cur the paragraph being read.  A run of k newlines holds
\* k \div 2 non-overlapping separators, found left to right; an odd last
\* newline starts the next paragraph.
SplitRun(st, r) ==
  IF r.c = NL /\ r.n >= 2
  THEN [out |-> st.out \o <<st.cur>> \o [j \in 1..((r.n \div 2) - 1) |-> <<>>],
        cur |-> Rep(NL, r.n % 2)]
  ELSE [out |-> st.out, cur |-> Cat(st.cur, <<r>>)]

RECURSIVE SplitScan(_, _)
SplitScan(s, st) ==
  IF s = <<>> THEN st.out \o <<st.cur>>
  ELSE SplitScan(Tail(s), SplitRun(st, s[1]))

\* s.split('\n\n')
SplitParagraphs(s) == SplitScan(s, [out |-> <<>>, cur |-> <<>>])

\* sep.join(ss)
RECURSIVE Join(_, _)
Join(sep, ss) ==
  IF ss = <<>> THEN <<>>
  ELSE IF Len(ss) = 1 THEN ss[1]
  ELSE Cat(Cat(ss[1], sep), Join(sep, Tail(ss)))

\* the separator "\n\n"
BlankLine == Rep(NL, 2)

(***************************************************************************)
(* chunk_text                                                              *)
(***************************************************************************)
\* variant: the paragraph that closes a chunk is not carried over
ChunkStep_DropsParagraph(st, paragraph, chunk_size) ==
  IF StrLen(st.current_chunk) + StrLen(paragraph) > chunk_size
       /\ st.current_chunk # <<>>
  THEN [chunks |-> Append(st.chunks, Strip(st.current_chunk)),
        current_chunk |-> <<>>]
  ELSE [chunks |-> st.chunks,
        current_chunk |-> IF st.current_chunk # <<>>
                          THEN Cat(Cat(st.current_chunk, Rep(NL, 2)), paragraph)
                          ELSE paragraph]

\* body of `for paragraph in paragraphs`
ChunkStep(st, paragraph, chunk_size) ==
  IF StrLen(st.current_chunk) + StrLen(paragraph) > chunk_size
       /\ st.current_chunk # <<>>
  THEN [chunks |-> Append(st.chunks, Strip(st.current_chunk)),
        current_chunk |-> paragraph]
  ELSE [chunks |-> st.chunks,
        current_chunk |-> IF st.current_chunk # <<>>
                          THEN Cat(Cat(st.current_chunk, BlankLine), paragraph)
                          ELSE paragraph]

\* the loop over paragraphs[lo..hi], left to right.  The range is halved so
\* that the evaluation depth stays logarithmic in the number of paragraphs;
\* the order of the steps is that of the for loop.  The state after the left
\* half and the middle index are bound as values before the right half starts.
RECURSIVE ChunkLoop(_, _, _, _, _)
ChunkLoop(paragraphs, lo, hi, st, chunk_size) ==
  IF lo > hi THEN st
  ELSE IF lo = hi THEN ChunkStep(st, paragraphs[lo], chunk_size)
  ELSE CHOOSE right \in
         UNION {{ChunkLoop(paragraphs, mid + 1, hi, left, chunk_size) :
                   left \in {ChunkLoop(paragraphs, lo, mid, st, chunk_size)}} :
                  mid \in {(lo + hi) \div 2}} : TRUE

chunk_text(text, chunk_size) ==
  CHOOSE out \in
    {IF st.current_chunk # <<>>
     THEN Append(st.chunks, Strip(st.current_chunk))
     ELSE st.chunks :
       st \in UNION {{ChunkLoop(paragraphs, 1, Len(paragraphs),
                                [chunks |-> <<>>, current_chunk |-> <<>>],
                                chunk_size)} :
                       paragraphs \in {SplitParagraphs(text)}}} : TRUE

(***************************************************************************)
(* The external completion service                                         *)
(***************************************************************************)
\* response.usage of a completed call: <<prompt_tokens, completion_tokens>>
Usages == {<<10, 5>>, <<20, 0>>}

\* texts the service may answer with
LetterA == Rep("a", 1)
LetterB == Rep("b", 1)
SummaryTexts == {LetterA, LetterB}
CombinedTexts == {LetterB, Cat(Cat(LetterA, BlankLine), LetterB)}
ExtractionTexts == {LetterB}

\* client.chat.completions.create(...): a response, or an exception
Raised == [raised |-> TRUE]
Completions(texts) ==
  {Raised} \cup {[raised |-> FALSE, content |-> s,
                  prompt_tokens |-> u[1], completion_tokens |-> u[2]] :
                   s \in texts, u \in Usages}

\* (prompt_tokens / 1000) * 0.00015 + (completion_tokens / 1000) * 0.0006
Cost(response) ==
  response.prompt_tokens * PromptRate + response.completion_tokens * CompletionRate

\* summarize_chunk, lines 43-70: the adapter call inside try/except
summarize_chunk(response) ==
  IF response.raised
  THEN [success |-> FALSE, error |-> "error"]
  ELSE [success |-> TRUE, summary |-> response.content,
        tokens |-> response.prompt_tokens + response.completion_tokens,
        cost |-> Cost(response)]

\* combine_summaries, lines 84-111: the adapter call inside try/except
combine_summaries(response) ==
  IF response.raised
  THEN [success |-> FALSE, error |-> "error"]
  ELSE [success |-> TRUE, summary |-> response.content,
        tokens |-> response.prompt_tokens + response.completion_tokens,
        cost |-> Cost(response)]

\* the try/except of extract_key_info
extract_key_info(response) ==
  IF response.raised
  THEN [success |-> FALSE, error |-> "error"]
  ELSE [success |-> TRUE, extraction |-> response.content,
        tokens |-> response.prompt_tokens + response.completion_tokens,
        cost |-> Cost(response)]

(***************************************************************************)
(* Documents                                                               *)
(***************************************************************************)
\* paragraph lengths on both sides of Threshold and of ChunkSize
ParagraphLengths == {3999, 5999, 11999, 12000}
ParagraphChars == {"a", SP, NL}

\* k paragraphs of n characters c, separated by blank lines
Document(c, n, k) == Join(BlankLine, [j \in 1..k |-> Rep(c, n)])

Docs ==
  {Document(c, n, k) : c \in ParagraphChars, n \in ParagraphLengths,
                       k \in 1..MaxParagraphs}

(***************************************************************************)
(* advanced_summarize                                                      *)
(***************************************************************************)
VARIABLES
  text,               \* the argument of advanced_summarize
  pc,                 \* position in advanced_summarize
  word_count,
  char_count,
  total_cost,
  extraction_result,
  chunks,
  i,                  \* enumerate(chunks, 1): the chunk to process next
  chunk_summaries,
  final_summary,
  result,             \* the value returned, None included
  calls,              \* history: the adapter-backed calls made, in order
  chunked,            \* history: number of calls of chunk_text
  prev,               \* history: outcome of the previous run, if any
  chunk_size,         \* the chunk_size argument of chunk_text
  current_document,   \* document_qa.py: the loaded document
  session_stats,      \* document_qa.py: the session counters
  qa_calls            \* history: the results of the answer_question calls

\* the state outside advanced_summarize
rest == <<chunk_size, current_document, session_stats, qa_calls>>

vars == <<text, pc, word_count, char_count, total_cost, extraction_result,
          chunks, i, chunk_summaries, final_summary, result, calls, chunked,
          prev, rest>>

\* document_qa.py lines 10-19: the module-level state before any call
NoDocument == [text |-> <<>>, filename |-> "", word_count |-> 0]
NoQuestions == [questions_asked |-> 0, total_cost |-> 0]

\* no Q&A session is running; chunk_text is called with chunk_size=10000
RestIdle ==
  /\ chunk_size = ChunkSize
  /\ current_document = NoDocument
  /\ session_stats = NoQuestions
  /\ qa_calls = <<>>

None == [none |-> TRUE]
NotCalled == [pending |-> TRUE]

Call(fn, arg, res) == [fn |-> fn, arg |-> arg, res |-> res]

\* lines 166-173: entry of advanced_summarize(t)
Enter(t) ==
  /\ text = t
  /\ pc = "step1"
  /\ word_count = WordCount(t)
  /\ char_count = StrLen(t)
  /\ total_cost = 0
  /\ extraction_result = NotCalled
  /\ chunks = <<>>
  /\ i = 0
  /\ chunk_summaries = <<>>
  /\ final_summary = <<>>
  /\ result = NotCalled
  /\ calls = <<>>
  /\ chunked = 0

Init == (\E t \in Docs : Enter(t)) /\ prev = None /\ RestIdle

\* variant: the threshold itself still counts as short
IsShort_Inclusive(n) == n <= Threshold

\* `if char_count < 12000`
IsShort(n) == n < Threshold

\* Step 1, lines 178-185
ExtractKeyInfo ==
  /\ pc = "step1"
  /\ \E response \in Completions(ExtractionTexts) :
       LET res == extract_key_info(response) IN
         /\ extraction_result' = res
         /\ total_cost' = IF res.success THEN total_cost + res.cost ELSE total_cost
         /\ calls' = Append(calls, Call("extract_key_info", text, res))
  /\ pc' = "step2"
  /\ UNCHANGED <<text, word_count, char_count, chunks, i, chunk_summaries,
                 final_summary, result, chunked, prev, rest>>

\* Step 2, short document, lines 188-222
DirectSummarize ==
  /\ pc = "step2"
  /\ IsShort(char_count)
  /\ \E response \in Completions(SummaryTexts) :
       LET res == IF response.raised
                  THEN [success |-> FALSE, error |-> "error"]
                  ELSE [success |-> TRUE, summary |-> response.content,
                        cost |-> Cost(response)]
       IN
         /\ calls' = Append(calls, Call("direct", text, res))
         /\ IF response.raised
            THEN /\ result' = None
                 /\ pc' = "done"
                 /\ UNCHANGED <<total_cost, final_summary, chunk_summaries>>
            ELSE /\ total_cost' = total_cost + Cost(response)
                 /\ final_summary' = response.content
                 /\ chunk_summaries' = <<response.content>>
                 /\ pc' = "result"
                 /\ UNCHANGED result
  /\ UNCHANGED <<text, word_count, char_count, extraction_result, chunks, i,
                 chunked, prev, rest>>

\* Step 2, long document, lines 224-230
ChunkText ==
  /\ pc = "step2"
  /\ ~IsShort(char_count)
  /\ chunks' = chunk_text(text, ChunkSize)
  /\ chunked' = chunked + 1
  /\ chunk_summaries' = <<>>
  /\ i' = 1
  /\ pc' = "chunks"
  /\ UNCHANGED <<text, word_count, char_count, total_cost, extraction_result,
                 final_summary, result, calls, prev, rest>>

\* variant: the first failed chunk ends the loop
SummarizeChunk_AbortOnFailure ==
  /\ pc = "chunks"
  /\ i <= Len(chunks)
  /\ \E response \in Completions(SummaryTexts) :
       LET res == summarize_chunk(response) IN
         /\ calls' = Append(calls, Call("summarize_chunk",
                                        <<chunks[i], i, Len(chunks)>>, res))
         /\ IF res.success
            THEN /\ chunk_summaries' = Append(chunk_summaries, res.summary)
                 /\ total_cost' = total_cost + res.cost
                 /\ i' = i + 1
            ELSE /\ UNCHANGED <<chunk_summaries, total_cost>>
                 /\ i' = Len(chunks) + 1
  /\ UNCHANGED <<text, pc, word_count, char_count, extraction_result, chunks,
                 final_summary, result, chunked, prev, rest>>

\* variant: a new summary is put in front of the earlier ones
SummarizeChunk_Prepend ==
  /\ pc = "chunks"
  /\ i <= Len(chunks)
  /\ \E response \in Completions(SummaryTexts) :
       LET res == summarize_chunk(response) IN
         /\ calls' = Append(calls, Call("summarize_chunk",
                                        <<chunks[i], i, Len(chunks)>>, res))
         /\ IF res.success
            THEN /\ chunk_summaries' = <<res.summary>> \o chunk_summaries
                 /\ total_cost' = total_cost + res.cost
            ELSE UNCHANGED <<chunk_summaries, total_cost>>
  /\ i' = i + 1
  /\ UNCHANGED <<text, pc, word_count, char_count, extraction_result, chunks,
                 final_summary, result, chunked, prev, rest>>

\* variant: a chunk whose call failed is tried a second time
SummarizeChunk_RetryOnce ==
  /\ pc = "chunks"
  /\ i <= Len(chunks)
  /\ \E response \in Completions(SummaryTexts) :
       LET res == summarize_chunk(response)
           first == calls[Len(calls)].fn # "summarize_chunk"
                      \/ calls[Len(calls)].arg[2] # i
       IN
         /\ calls' = Append(calls, Call("summarize_chunk",
                                        <<chunks[i], i, Len(chunks)>>, res))
         /\ IF res.success
            THEN /\ chunk_summaries' = Append(chunk_summaries, res.summary)
                 /\ total_cost' = total_cost + res.cost
                 /\ i' = i + 1
            ELSE /\ UNCHANGED <<chunk_summaries, total_cost>>
                 /\ i' = IF first THEN i ELSE i + 1
  /\ UNCHANGED <<text, pc, word_count, char_count, extraction_result, chunks,
                 final_summary, result, chunked, prev, rest>>

\* one iteration of `for i, chunk in enumerate(chunks, 1)`, lines 232-242
SummarizeChunk ==
  /\ pc = "chunks"
  /\ i <= Len(chunks)
  /\ \E response \in Completions(SummaryTexts) :
       LET res == summarize_chunk(response) IN
         /\ calls' = Append(calls, Call("summarize_chunk",
                                        <<chunks[i], i, Len(chunks)>>, res))
         /\ IF res.success
            THEN /\ chunk_summaries' = Append(chunk_summaries, res.summary)
                 /\ total_cost' = total_cost + res.cost
            ELSE UNCHANGED <<chunk_summaries, total_cost>>
  /\ i' = i + 1
  /\ UNCHANGED <<text, pc, word_count, char_count, extraction_result, chunks,
                 final_summary, result, chunked, prev, rest>>

\* variant: without the guard, the empty list of summaries is joined and returned
NoChunkSummarized_ReturnsEmpty ==
  /\ pc = "chunks"
  /\ i > Len(chunks)
  /\ chunk_summaries = <<>>
  /\ final_summary' = Join(Rep(NL, 2), chunk_summaries)
  /\ pc' = "result"
  /\ UNCHANGED <<text, word_count, char_count, total_cost, extraction_result,
                 chunks, i, chunk_summaries, result, calls, chunked, prev, rest>>

\* `if not chunk_summaries: return None`, lines 244-246
NoChunkSummarized ==
  /\ pc = "chunks"
  /\ i > Len(chunks)
  /\ chunk_summaries = <<>>
  /\ result' = None
  /\ pc' = "done"
  /\ UNCHANGED <<text, word_count, char_count, total_cost, extraction_result,
                 chunks, i, chunk_summaries, final_summary, calls, chunked, prev, rest>>

\* variant: a single chunk is sent to the combiner too
NeedsCombining_AnyChunk(chs, sums) == Len(chs) >= 1

\* `if len(chunks) > 1`
NeedsCombining(chs, sums) == Len(chs) > 1

\* variant: the summaries are joined by a single newline
Fallback_SingleNewline(sums) == Join(Rep(NL, 1), sums)

\* "\n\n".join(chunk_summaries), line 261
Fallback(sums) == Join(BlankLine, sums)

\* variant: `total_cost = combine_result['cost']` instead of `+=`
Combine_OverwritesCost ==
  /\ pc = "chunks"
  /\ i > Len(chunks)
  /\ chunk_summaries # <<>>
  /\ Len(chunks) > 1
  /\ \E response \in Completions(CombinedTexts) :
       LET combine_result == combine_summaries(response) IN
         /\ calls' = Append(calls, Call("combine_summaries", chunk_summaries,
                                        combine_result))
         /\ IF combine_result.success
            THEN /\ final_summary' = combine_result.summary
                 /\ total_cost' = combine_result.cost
            ELSE /\ final_summary' = Join(Rep(NL, 2), chunk_summaries)
                 /\ UNCHANGED total_cost
  /\ pc' = "result"
  /\ UNCHANGED <<text, word_count, char_count, extraction_result, chunks, i,
                 chunk_summaries, result, chunked, prev, rest>>

\* Step 3, lines 249-261
Combine ==
  /\ pc = "chunks"
  /\ i > Len(chunks)
  /\ chunk_summaries # <<>>
  /\ NeedsCombining(chunks, chunk_summaries)
  /\ \E response \in Completions(CombinedTexts) :
       LET combine_result == combine_summaries(response) IN
         /\ calls' = Append(calls, Call("combine_summaries", chunk_summaries,
                                        combine_result))
         /\ IF combine_result.success
            THEN /\ final_summary' = combine_result.summary
                 /\ total_cost' = total_cost + combine_result.cost
            ELSE /\ final_summary' = Fallback(chunk_summaries)
                 /\ UNCHANGED total_cost
  /\ pc' = "result"
  /\ UNCHANGED <<text, word_count, char_count, extraction_result, chunks, i,
                 chunk_summaries, result, chunked, prev, rest>>

\* `else: final_summary = chunk_summaries[0]`, lines 262-263
UseOnlySummary ==
  /\ pc = "chunks"
  /\ i > Len(chunks)
  /\ chunk_summaries # <<>>
  /\ ~NeedsCombining(chunks, chunk_summaries)
  /\ final_summary' = chunk_summaries[1]
  /\ pc' = "result"
  /\ UNCHANGED <<text, word_count, char_count, total_cost, extraction_result,
                 chunks, i, chunk_summaries, result, calls, chunked, prev, rest>>

\* the result dict, lines 266-272
\* the literal 'Extraction failed', kept as one symbol
ExtractionFailed == Rep("Extraction failed", 1)

KeyInfo(er) == IF er.success THEN er.extraction ELSE ExtractionFailed

\* variant: `char_count > 12000`
ChunksProcessed_StrictThreshold(n, chs) == IF n > Threshold THEN Len(chs) ELSE 1

ChunksProcessed(n, chs) == IF n >= Threshold THEN Len(chs) ELSE 1

\* lines 266-274
Return ==
  /\ pc = "result"
  /\ result' = [summary |-> final_summary,
                key_info |-> KeyInfo(extraction_result),
                total_cost |-> total_cost,
                chunks_processed |-> ChunksProcessed(char_count, chunks),
                original_words |-> word_count]
  /\ pc' = "done"
  /\ UNCHANGED <<text, word_count, char_count, total_cost, extraction_result,
                 chunks, i, chunk_summaries, final_summary, calls, chunked, prev, rest>>

Next ==
  \/ ExtractKeyInfo
  \/ DirectSummarize
  \/ ChunkText
  \/ SummarizeChunk
  \/ NoChunkSummarized
  \/ Combine
  \/ UseOnlySummary
  \/ Return

Spec == Init /\ [][Next]_vars

\* the function runs to its return: a blocking call returns or raises, and
\* the statement after it is executed
SpecFair == Spec /\ WF_vars(Next)

(***************************************************************************)
(* History of a run, read off the recorded calls                           *)
(***************************************************************************)
CallsOf(fn) == {k \in 1..Len(calls) : calls[k].fn = fn}

Succeeded(fn) == {k \in CallsOf(fn) : calls[k].res.success}

Failed(fn) == {k \in CallsOf(fn) : ~calls[k].res.success}

\* the run took the long-document path
LongRun == chunked > 0

\* advanced_summarize has returned a result dict
Returned == pc = "done" /\ result # None

\* advanced_summarize has returned None
ReturnedNone == pc = "done" /\ result = None

\* chunk indices whose summarize_chunk call succeeded
SucceededChunks == {calls[k].arg[2] : k \in Succeeded("summarize_chunk")}

\* the summary produced for chunk j
SummaryOfChunk(j) ==
  calls[CHOOSE k \in Succeeded("summarize_chunk") : calls[k].arg[2] = j].res.summary

\* the summaries of the successful chunks, by increasing chunk index
SummariesInChunkOrder ==
  [m \in 1..Cardinality(SucceededChunks) |->
     SummaryOfChunk(CHOOSE j \in SucceededChunks :
                      Cardinality({x \in SucceededChunks : x <= j}) = m)]

RECURSIVE SumCosts(_)
SumCosts(cs) ==
  IF cs = <<>> THEN 0
  ELSE (IF cs[1].res.success THEN cs[1].res.cost ELSE 0) + SumCosts(Tail(cs))

\* the summary of the run came from the concatenation fallback
Degraded == Failed("combine_summaries") # {}

\* the summary of the run came from a successful combine_summaries call
FullyCombined == Succeeded("combine_summaries") # {}

(***************************************************************************)
(* Two consecutive calls of advanced_summarize                             *)
(***************************************************************************)
TwoRunDocs == {Document("a", 11999, 1), Document("a", 12000, 1), Document("a", 5999, 2)}

InitTwoRuns == (\E t \in TwoRunDocs : Enter(t)) /\ prev = None /\ RestIdle

\* advanced_summarize is called again once the first call has returned
SecondRun ==
  /\ pc = "done"
  /\ prev = None
  /\ prev' = [result |-> result, degraded |-> Degraded,
              combined |-> FullyCombined]
  /\ \E t \in TwoRunDocs :
       /\ text' = t
       /\ word_count' = WordCount(t)
       /\ char_count' = StrLen(t)
  /\ pc' = "step1"
  /\ total_cost' = 0
  /\ extraction_result' = NotCalled
  /\ chunks' = <<>>
  /\ i' = 0
  /\ chunk_summaries' = <<>>
  /\ final_summary' = <<>>
  /\ result' = NotCalled
  /\ calls' = <<>>
  /\ chunked' = 0
  /\ UNCHANGED rest

NextTwoRuns == Next \/ SecondRun

SpecTwoRuns == InitTwoRuns /\ [][NextTwoRuns]_vars

(***************************************************************************)
(* chunk_text called on its own, for every small text and chunk_size       *)
(***************************************************************************)
TextChars == {"a", "b", SP, NL}

\* the str made of the characters cs, in order
RECURSIVE Encode(_)
Encode(cs) == IF cs = <<>> THEN <<>> ELSE Cat(Rep(cs[1], 1), Encode(Tail(cs)))

Texts == {Encode(cs) : cs \in UNION {[1..n -> TextChars] : n \in 0..MaxTextLen}}

\* advanced_summarize is not running
PipelineIdle(t, p) ==
  /\ text = t
  /\ pc = p
  /\ word_count = 0
  /\ char_count = 0
  /\ total_cost = 0
  /\ extraction_result = NotCalled
  /\ chunks = <<>>
  /\ i = 0
  /\ chunk_summaries = <<>>
  /\ final_summary = <<>>
  /\ result = NotCalled
  /\ calls = <<>>
  /\ chunked = 0
  /\ prev = None

InitChunker ==
  /\ \E t \in Texts : PipelineIdle(t, "chunk_text")
  /\ chunk_size \in 0..MaxChunkSize
  /\ current_document = NoDocument
  /\ session_stats = NoQuestions
  /\ qa_calls = <<>>

\* chunks = chunk_text(text, chunk_size)
CallChunkText ==
  /\ pc = "chunk_text"
  /\ chunks' = chunk_text(text, chunk_size)
  /\ chunked' = chunked + 1
  /\ pc' = "chunked"
  /\ UNCHANGED <<text, word_count, char_count, total_cost, extraction_result,
                 i, chunk_summaries, final_summary, result, calls, prev, rest>>

NextChunker == CallChunkText

SpecChunker == InitChunker /\ [][NextChunker]_vars

\* the paragraphs of the chunks cs, chunk after chunk
RECURSIVE ParagraphsOfChunks(_)
ParagraphsOfChunks(cs) ==
  IF cs = <<>> THEN <<>>
  ELSE SplitParagraphs(cs[1]) \o ParagraphsOfChunks(Tail(cs))

NonEmpty(s) == s # <<>>

\* the paragraphs ps with surrounding whitespace removed, the empty ones left out
StrippedParagraphs(ps) == SelectSeq([k \in 1..Len(ps) |-> Strip(ps[k])], NonEmpty)

(***************************************************************************)
(* document_qa.py: load_document_for_qa and answer_question                *)
(***************************************************************************)
\* read_document(file_path): a failure, or the text and word count of a file
ReadFailure == [success |-> FALSE, error |-> "error"]
FileNames == {"x.txt", "y.txt"}
FileTexts == {<<>>, LetterA, Cat(Cat(LetterA, Rep(SP, 1)), LetterB)}
ReadResults ==
  {ReadFailure} \cup {[success |-> TRUE, text |-> t, word_count |-> WordCount(t)] :
                        t \in FileTexts}
AnswerTexts == {LetterA}

InitQA ==
  /\ PipelineIdle(<<>>, "qa")
  /\ chunk_size = ChunkSize
  /\ current_document = NoDocument
  /\ session_stats = NoQuestions
  /\ qa_calls = <<>>

\* load_document_for_qa(file_path), lines 21-40
LoadDocumentForQA ==
  /\ pc = "qa"
  /\ Len(qa_calls) < MaxQACalls
  /\ \E file \in FileNames, read \in ReadResults :
       IF ~read.success
       THEN /\ qa_calls' = Append(qa_calls, [fn |-> "load_document_for_qa",
                                               returned |-> FALSE])
            /\ UNCHANGED current_document
       ELSE /\ current_document' = [text |-> read.text, filename |-> file,
                                    word_count |-> read.word_count]
            /\ qa_calls' = Append(qa_calls, [fn |-> "load_document_for_qa",
                                               returned |-> TRUE])
  /\ UNCHANGED <<text, pc, word_count, char_count, total_cost, extraction_result,
                 chunks, i, chunk_summaries, final_summary, result, calls,
                 chunked, prev, chunk_size, session_stats>>

\* variant: the question is counted before the completion call is made
AnswerQuestion_CountsEveryCall ==
  /\ pc = "qa"
  /\ Len(qa_calls) < MaxQACalls
  /\ IF current_document.text = <<>>
     THEN /\ qa_calls' = Append(qa_calls,
                [fn |-> "answer_question", loaded |-> FALSE, adapter |-> FALSE,
                 res |-> [success |-> FALSE, error |-> "No document loaded!"]])
          /\ UNCHANGED session_stats
     ELSE \E response \in Completions(AnswerTexts) :
            IF response.raised
            THEN /\ qa_calls' = Append(qa_calls,
                       [fn |-> "answer_question", loaded |-> TRUE,
                        adapter |-> TRUE,
                        res |-> [success |-> FALSE, error |-> "error"]])
                 /\ session_stats' =
                      [session_stats EXCEPT !.questions_asked = @ + 1]
            ELSE /\ session_stats' =
                      [questions_asked |-> session_stats.questions_asked + 1,
                       total_cost |-> session_stats.total_cost + Cost(response)]
                 /\ qa_calls' = Append(qa_calls,
                       [fn |-> "answer_question", loaded |-> TRUE,
                        adapter |-> TRUE,
                        res |-> [success |-> TRUE, answer |-> response.content,
                                 tokens |-> response.prompt_tokens
                                              + response.completion_tokens,
                                 cost |-> Cost(response)]])
  /\ UNCHANGED <<text, pc, word_count, char_count, total_cost, extraction_result,
                 chunks, i, chunk_summaries, final_summary, result, calls,
                 chunked, prev, chunk_size, current_document>>

\* answer_question(question), lines 42-98
AnswerQuestion ==
  /\ pc = "qa"
  /\ Len(qa_calls) < MaxQACalls
  /\ IF current_document.text = <<>>
     THEN /\ qa_calls' = Append(qa_calls,
                [fn |-> "answer_question", loaded |-> FALSE, adapter |-> FALSE,
                 res |-> [success |-> FALSE, error |-> "No document loaded!"]])
          /\ UNCHANGED session_stats
     ELSE \E response \in Completions(AnswerTexts) :
            IF response.raised
            THEN /\ qa_calls' = Append(qa_calls,
                       [fn |-> "answer_question", loaded |-> TRUE,
                        adapter |-> TRUE,
                        res |-> [success |-> FALSE, error |-> "error"]])
                 /\ UNCHANGED session_stats
            ELSE /\ session_stats' =
                      [questions_asked |-> session_stats.questions_asked + 1,
                       total_cost |-> session_stats.total_cost + Cost(response)]
                 /\ qa_calls' = Append(qa_calls,
                       [fn |-> "answer_question", loaded |-> TRUE,
                        adapter |-> TRUE,
                        res |-> [success |-> TRUE, answer |-> response.content,
                                 tokens |-> response.prompt_tokens
                                              + response.completion_tokens,
                                 cost |-> Cost(response)]])
  /\ UNCHANGED <<text, pc, word_count, char_count, total_cost, extraction_result,
                 chunks, i, chunk_summaries, final_summary, result, calls,
                 chunked, prev, chunk_size, current_document>>

NextQA == LoadDocumentForQA \/ AnswerQuestion

SpecQA == InitQA /\ [][NextQA]_vars

\* the costs of the answer_question calls that returned success
RECURSIVE SumAnswerCosts(_)
SumAnswerCosts(cs) ==
  IF cs = <<>> THEN 0
  ELSE (IF cs[1].fn = "answer_question" /\ cs[1].res.success
        THEN cs[1].res.cost ELSE 0) + SumAnswerCosts(Tail(cs))

(***************************************************************************)
(* Properties                                                              *)
(***************************************************************************)
\* the chunk loop of a long run has finished
LoopDone == LongRun /\ pc \in {"result", "done"}

\* C1: in a long run combine_summaries is invoked if and only if at least
\* two chunks were summarized successfully; with exactly one success it is
\* not invoked and the returned summary is that chunk's summary unchanged.
C1_CombineIffTwoSucceeded ==
  LoopDone =>
    /\ (CallsOf("combine_summaries") # {}
          <=> Cardinality(Succeeded("summarize_chunk")) >= 2)
    /\ (Cardinality(Succeeded("summarize_chunk")) = 1 /\ pc = "done"
          => /\ result # None
             /\ result.summary = SummariesInChunkOrder[1])

\* C2: if every chunk summarization of a long run fails, advanced_summarize
\* returns None (never a result dict, so never one with an empty summary)
\* and combine_summaries is not called in that run.
C2_AllChunksFailed ==
  /\ (LongRun /\ Succeeded("summarize_chunk") = {}
        => CallsOf("combine_summaries") = {})
  /\ (LongRun /\ pc = "done" /\ Succeeded("summarize_chunk") = {}
        => result = None)

C2_Witness ==
  /\ ReturnedNone
  /\ LongRun
  /\ Len(chunks) >= 2
  /\ Cardinality(Failed("summarize_chunk")) = Len(chunks)
  /\ CallsOf("combine_summaries") = {}

\* C3: in a long run with n chunks of which some but not all fail, every one
\* of the n chunks is attempted exactly once, in order, a result is returned
\* and it reports chunks_processed = n.
C3_PartialFailure ==
  (LongRun /\ pc = "done"
     /\ Failed("summarize_chunk") # {} /\ Succeeded("summarize_chunk") # {})
    => /\ Cardinality(CallsOf("summarize_chunk")) = Len(chunks)
       /\ \A j \in 1..Len(chunks) :
            \E k \in CallsOf("summarize_chunk") :
              calls[k].arg = <<chunks[j], j, Len(chunks)>>
       /\ result # None
       /\ result.chunks_processed = Len(chunks)

C3_Witness ==
  /\ Returned
  /\ LongRun
  /\ Len(chunks) = 3
  /\ Cardinality(Failed("summarize_chunk")) = 2
  /\ ~calls[CHOOSE k \in CallsOf("summarize_chunk") : calls[k].arg[2] = 1].res.success
  /\ result.chunks_processed = 3

\* the summarization of the run succeeded: the direct call, or some chunk
SummarizationSucceeded ==
  Succeeded("direct") # {} \/ Succeeded("summarize_chunk") # {}

\* the summarization of the run failed: the direct call, or every chunk
SummarizationFailed ==
  \/ Failed("direct") # {}
  \/ (LongRun /\ Len(chunks) >= 1 /\ Succeeded("summarize_chunk") = {})

\* C4: when extraction fails and summarization succeeds the returned result
\* carries the summary, and when extraction succeeds and summarization fails
\* the extraction text is still delivered in the returned value.
C4_ExtractionIndependence ==
  pc = "done" =>
    /\ (Failed("extract_key_info") # {} /\ SummarizationSucceeded
          => result # None /\ result.summary = final_summary)
    /\ (Succeeded("extract_key_info") # {} /\ SummarizationFailed
          => result # None /\ result.key_info = extraction_result.extraction)

\* C5: the running total equals the sum of the costs of the sub-calls that
\* succeeded so far, a returned result reports that sum, and the running
\* total never decreases from one sub-call to the next.
C5_CostAdditive ==
  [][ /\ total_cost' >= total_cost
      /\ total_cost' = SumCosts(calls')
      /\ (pc' = "done" /\ result' # None
            => result'.total_cost = SumCosts(calls')) ]_vars

C5_Witness ==
  /\ Returned
  /\ Succeeded("extract_key_info") # {}
  /\ Failed("summarize_chunk") # {}
  /\ Cardinality(Succeeded("summarize_chunk")) = 2
  /\ Succeeded("combine_summaries") # {}
  /\ result.total_cost = 450 + 300 + 300 + 450

\* C6: a document of at least 12,000 characters (so one of exactly 12,000)
\* takes the long path, chunk_text called and no direct call; a shorter one
\* (so one of 11,999) takes the short path, exactly one direct call and
\* chunk_text never called.
C6_RoutingBoundary ==
  /\ char_count = StrLen(text)
  /\ pc \in {"chunks", "result", "done"} =>
       IF StrLen(text) >= 12000
       THEN chunked = 1 /\ CallsOf("direct") = {}
       ELSE chunked = 0 /\ Cardinality(CallsOf("direct")) = 1

C6_Witness ==
  /\ pc = "done"
  /\ StrLen(text) = 12000
  /\ chunked = 1
  /\ CallsOf("direct") = {}
  /\ CallsOf("summarize_chunk") # {}

\* C7: a result returned after combine_summaries failed is never identical
\* to a result returned by a run whose combine_summaries call succeeded.
C7_DegradedDistinguishable ==
  (pc = "done" /\ prev # None /\ result # None)
    => /\ ~(prev.degraded /\ FullyCombined /\ prev.result = result)
       /\ ~(prev.combined /\ Degraded /\ prev.result = result)

\* C8: when combine_summaries is invoked and fails, a result is returned,
\* its summary is the successful chunk summaries in chunk order joined by
\* "\n\n", and the failed call adds no cost.
C8_ConcatenationFallback ==
  /\ (Failed("combine_summaries") # {} /\ pc \in {"result", "done"}
        => /\ final_summary = Join(BlankLine, SummariesInChunkOrder)
           /\ total_cost = SumCosts(SubSeq(calls, 1, Len(calls) - 1))
           /\ ~calls[Len(calls)].res.success)
  /\ (Failed("combine_summaries") # {} /\ pc = "done"
        => /\ result # None
           /\ result.summary = Join(BlankLine, SummariesInChunkOrder)
           /\ result.total_cost = SumCosts(SubSeq(calls, 1, Len(calls) - 1)))

C8_Witness ==
  /\ Returned
  /\ Failed("combine_summaries") # {}
  /\ Cardinality(SucceededChunks) = 2
  /\ Failed("summarize_chunk") # {}
  /\ result.summary = Cat(Cat(LetterB, BlankLine), LetterA)

\* C9: a long document for which chunk_text produces exactly one chunk never
\* causes a call of combine_summaries, and if that chunk is summarized the
\* returned summary is that chunk's summary verbatim.
C9_SingleChunkShortcut ==
  (LongRun /\ Len(chunk_text(text, 10000)) = 1)
    => /\ CallsOf("combine_summaries") = {}
       /\ (pc = "done" /\ Succeeded("summarize_chunk") # {}
             => result # None /\ result.summary = SummaryOfChunk(1))

C9_Witness ==
  /\ Returned
  /\ StrLen(text) >= 12000
  /\ Len(chunks) = 1
  /\ Succeeded("summarize_chunk") # {}
  /\ result.summary = LetterA

\* C10: every call of combine_summaries comes after the summarization
\* attempts of all chunks, and its input is the summaries of the successful
\* chunks in increasing chunk index, nothing else.
C10_CombineAfterAllSettled ==
  \A k \in CallsOf("combine_summaries") :
    /\ {calls[j].arg[2] : j \in {m \in CallsOf("summarize_chunk") : m < k}}
         = 1..Len(chunks)
    /\ \A m \in CallsOf("summarize_chunk") : m < k
    /\ \A m, n \in CallsOf("summarize_chunk") :
         m < n => calls[m].arg[2] < calls[n].arg[2]
    /\ calls[k].arg = SummariesInChunkOrder

C10_Witness ==
  /\ CallsOf("combine_summaries") # {}
  /\ Len(chunks) = 3
  /\ SucceededChunks = {1, 3}
  /\ calls[Len(calls)].arg = <<LetterA, LetterB>>

\* C11: every chunk returned by chunk_text that is made of two or more
\* paragraphs has length at most chunk_size, the blank-line separators
\* between the joined paragraphs counted.
C11_JoinedChunkWithinSize ==
  pc = "chunked" =>
    \A k \in 1..Len(chunks) :
      Len(SplitParagraphs(chunks[k])) >= 2 => StrLen(chunks[k]) <= chunk_size

\* C12: chunk_text returns the empty sequence for the empty text and a
\* non-empty sequence for every non-empty text.
C12_NonEmptyForNonEmptyText ==
  pc = "chunked" =>
    /\ (text = <<>> => chunks = <<>>)
    /\ (text # <<>> => chunks # <<>>)

\* C13 as stated: for non-empty text, the paragraphs of the chunks, taken
\* chunk after chunk, are exactly the paragraphs of the text.
C13_ParagraphsPreserved ==
  (pc = "chunked" /\ text # <<>>)
    => ParagraphsOfChunks(chunks) = SplitParagraphs(text)

\* C13 amended: for non-empty text, the paragraphs of the chunks, taken chunk
\* after chunk, are the paragraphs of the text once surrounding whitespace
\* is stripped from each paragraph and empty paragraphs are left out.
C13_ParagraphsPreservedModuloWhitespace ==
  (pc = "chunked" /\ text # <<>>)
    => StrippedParagraphs(ParagraphsOfChunks(chunks))
         = StrippedParagraphs(SplitParagraphs(text))

C13_Witness ==
  /\ pc = "chunked"
  /\ Len(chunks) = 2
  /\ Len(SplitParagraphs(text)) = 2
  /\ ParagraphsOfChunks(chunks) # SplitParagraphs(text)
  /\ StrippedParagraphs(SplitParagraphs(text)) = <<LetterA, LetterB>>

\* C14: every returned result has chunks_processed >= 1, exactly 1 for a
\* document under 12,000 characters and the number of chunks chunk_text
\* produces otherwise, and a long document whose chunk list is empty gets
\* no result.
C14_ChunksProcessedAtLeastOne ==
  /\ Returned =>
       /\ result.chunks_processed >= 1
       /\ result.chunks_processed =
            IF StrLen(text) < 12000 THEN 1 ELSE Len(chunk_text(text, 10000))
  /\ (pc = "done" /\ StrLen(text) >= 12000 /\ chunk_text(text, 10000) = <<>>)
       => result = None

C14_Witness ==
  /\ Returned
  /\ StrLen(text) = 12000
  /\ Len(chunks) = 2
  /\ result.chunks_processed = 2

\* the adapter-backed calls made so far have the shape of one run without
\* retry: one extraction first, then one direct call, or one summarization
\* per chunk in chunk order followed by at most one combination
CallShape ==
  /\ Cardinality(CallsOf("extract_key_info")) <= 1
  /\ calls # <<>> => calls[1].fn = "extract_key_info"
  /\ Cardinality(CallsOf("direct")) <= 1
  /\ CallsOf("direct") # {}
       => CallsOf("summarize_chunk") = {} /\ CallsOf("combine_summaries") = {}
  /\ \A m, n \in CallsOf("summarize_chunk") :
       m # n => calls[m].arg[2] # calls[n].arg[2]
  /\ Cardinality(CallsOf("combine_summaries")) <= 1
  /\ \A k \in CallsOf("combine_summaries") : k = Len(calls)
  /\ pc = "done" =>
       /\ Cardinality(CallsOf("extract_key_info")) = 1
       /\ result = None \/ result.summary = final_summary
       /\ IF StrLen(text) < 12000
          THEN /\ Cardinality(CallsOf("direct")) = 1
               /\ Len(calls) = 2
          ELSE /\ CallsOf("direct") = {}
               /\ Cardinality(CallsOf("summarize_chunk"))
                    = Len(chunk_text(text, 10000))
               /\ Len(calls) <= 1 + Len(chunk_text(text, 10000)) + 1

\* C15: whatever the adapter calls do, advanced_summarize reaches its return
\* and makes exactly one extraction call, then exactly one direct call, or
\* exactly one summarization call per chunk and at most one combine call; no
\* call is repeated.
C15_BoundedCallsNoRetry == [](CallShape) /\ <>(pc = "done")

C15_Witness ==
  /\ Returned
  /\ Len(chunks) = 3
  /\ Cardinality(Failed("summarize_chunk")) = 2
  /\ Failed("extract_key_info") # {}
  /\ Failed("combine_summaries") # {}
  /\ Len(calls) = 5

\* C16: session_stats changes only on a successful answer, then by one
\* question and that answer's cost, so questions_asked is the number of
\* successful answers; answer_question without a loaded text fails without
\* an adapter call and an adapter failure fails too, both leaving
\* session_stats unchanged; a failed load leaves current_document unchanged.
C16_StatsOnlyOnSuccessfulAnswer ==
  [][ LET call == qa_calls'[Len(qa_calls')] IN
      /\ qa_calls' = Append(qa_calls, call)
      /\ session_stats'.questions_asked = Cardinality({k \in 1..Len(qa_calls') :
           qa_calls'[k].fn = "answer_question" /\ qa_calls'[k].res.success})
      /\ session_stats'.total_cost = SumAnswerCosts(qa_calls')
      /\ IF call.fn = "answer_question"
         THEN /\ current_document.text = <<>>
                   => ~call.res.success /\ ~call.adapter
              /\ IF call.res.success
                 THEN /\ session_stats'.questions_asked
                           = session_stats.questions_asked + 1
                      /\ session_stats'.total_cost
                           = session_stats.total_cost + call.res.cost
                 ELSE session_stats' = session_stats
         ELSE /\ session_stats' = session_stats
              /\ ~call.returned => current_document' = current_document ]_vars

C16_Witness ==
  /\ Len(qa_calls) = 5
  /\ qa_calls[1].fn = "answer_question" /\ ~qa_calls[1].adapter
  /\ qa_calls[2].fn = "load_document_for_qa" /\ qa_calls[2].returned
  /\ qa_calls[3].fn = "answer_question" /\ qa_calls[3].res.success
  /\ qa_calls[4].fn = "load_document_for_qa" /\ ~qa_calls[4].returned
  /\ qa_calls[5].fn = "answer_question" /\ qa_calls[5].adapter
       /\ ~qa_calls[5].res.success
  /\ current_document.filename = "x.txt"
  /\ session_stats = [questions_asked |-> 1, total_cost |-> 450]

====
